---- MODULE Spec2Model ----
(***************************************************************************)
(* The photo editor of src/App.tsx as a state machine: the React state of  *)
(* the App component, the closures its asynchronous actions capture, the   *)
(* API-key modal and its delayed timer, and the external generation        *)
(* service as a nondeterministic responder.                                *)
(*                                                                         *)
(* One action is one event-loop task: an event handler (followed by the    *)
(* re-render React performs before the next event), a timer callback, or   *)
(* the continuation of an awaited service call.  A handler reads the state *)
(* of the render it was created in; useCallback's dependency lists name    *)
(* every state it reads, so a handler invoked by the user reads the        *)
(* current state, while an `action` closure keeps the values it captured   *)
(* when the request was made.                                              *)
(*                                                                         *)
(* A handler is taken whenever the control it hangs on is rendered and can  *)
(* be reached by the pointer.  Where a `disabled` attribute repeats a test  *)
(* the handler makes itself (canUndo, canRedo, the prompt and the hotspot   *)
(* of Generate, the selection of Apply Crop) the handler's own test         *)
(* decides; what `disabled` tests and the handler does not (isLoading) is   *)
(* the action's guard.                                                      *)
(*                                                                         *)
(* Nullable values are sequences of length 0 (null) or 1.  Strings that    *)
(* the code inspects (keys, prompts, data URLs) are sequences of tokens.   *)
(***************************************************************************)
EXTENDS Integers, Sequences, FiniteSets, TLC

\* ------------------------------------------------------------------ bounds
\* Files (artifacts) that can be created in one run.
MaxFiles == 3
\* Requests for a generation call that can be made in one run.
MaxCalls == 2
\* The same two bounds for the runs checked for liveness.
LiveMaxFiles == 2
LiveMaxCalls == 1
VARIABLES
    history,            \* File[]: sequence of file ids
    historyIndex,       \* number
    prompt,             \* string (sequence of characters)
    isLoading,          \* boolean
    error,              \* null or the message, <<>> or <<prefix, detail>>
    editHotspot,        \* null or {x, y} in native pixels
    displayHotspot,     \* null or {x, y} in displayed pixels
    activeTab,          \* 'retouch' | 'adjust' | 'filters' | 'crop'
    completedCrop,      \* undefined or PixelCrop
    apiKey,             \* null or string
    sessionKey,         \* sessionStorage['user-api-key']
    isApiKeyModalOpen,  \* boolean
    modalKey,           \* ApiKeyModal's `key`: what its field holds ('' when closed)
    pendingAction,      \* null or the held action (a request id)
    calls,              \* request id -> the action closure and its progress
    nextFile,           \* id of the next File object to be constructed
    nextCall,           \* id of the next request
    limits,             \* how many Files and requests this run may make
    lastOp,             \* the task that produced this state
    objectUrls,         \* the object URLs created and not yet revoked
    faces,              \* FaceLibrary: string[], the faces shown
    storedFaces,        \* localStorage['dad-memory-faces']
    reads,              \* FileReader reads in progress, with their onload closures
    readsStarted,       \* how many files have been picked as a face
    selectedFace,       \* StartScreen's selectedFace: null or a face
    librarySelectedFace, \* FaceLibrary's own selectedFace
    startTab,           \* StartScreen's activeTab: 'generate' | 'upload'
    arg,                \* the argument handed to a helper function
    ret                 \* null, or what the helper returned

vars == <<history, historyIndex, prompt, isLoading, error, editHotspot,
          displayHotspot, activeTab, completedCrop, apiKey, sessionKey,
          isApiKeyModalOpen, modalKey, pendingAction, calls, nextFile, nextCall,
          limits, lastOp, objectUrls, faces, storedFaces, reads, readsStarted,
          selectedFace, librarySelectedFace, startTab, arg, ret>>

\* The state of the start screen, of its FaceLibrary and of its storage.
libraryVars == <<faces, storedFaces, reads, readsStarted,
                 selectedFace, librarySelectedFace, startTab>>

\* What the start screen keeps of the user's choices.
selectionVars == <<selectedFace, librarySelectedFace, startTab>>

\* The argument and the result of a helper function applied on its own.
pureVars == <<arg, ret>>

Null == <<>>
Some(v) == <<v>>

\* ----------------------------------------------------------------- strings
Space == " "

RECURSIVE trimStart(_)
trimStart(s) ==
    IF s # <<>> /\ Head(s) = Space THEN trimStart(Tail(s)) ELSE s

RECURSIVE trimEnd(_)
trimEnd(s) ==
    IF s # <<>> /\ s[Len(s)] = Space THEN trimEnd(SubSeq(s, 1, Len(s) - 1)) ELSE s

\* String.prototype.trim
trim(s) == trimEnd(trimStart(s))

\* What a user can type into the modal's key field.
TypedKeys == {<<>>, <<Space>>, <<"k">>, <<Space, "k", Space>>}

\* What a user can type into a prompt field.
TypedPrompts == {<<Space>>, <<Space, "p">>}

\* --------------------------------------------------------------- data URLs
RECURSIVE split(_, _)
\* String.prototype.split(sep)
split(s, sep) ==
    IF \A i \in 1..Len(s) : s[i] # sep THEN <<s>>
    ELSE LET i == CHOOSE j \in 1..Len(s) :
                     s[j] = sep /\ \A k \in 1..(j - 1) : s[k] # sep
         IN <<SubSeq(s, 1, i - 1)>> \o split(SubSeq(s, i + 1, Len(s)), sep)

\* arr[0].match(/:(.*?);/): null, or <<group 1>>: what lies between the first
\* ':' and the first ';' after it.
mimeMatch(h) ==
    IF \E i, j \in 1..Len(h) : i < j /\ h[i] = ":" /\ h[j] = ";"
    THEN LET i == CHOOSE a \in 1..Len(h) :
                      h[a] = ":" /\ \A b \in 1..(a - 1) : h[b] # ":"
             j == CHOOSE a \in (i + 1)..Len(h) :
                      h[a] = ";" /\ \A b \in (i + 1)..(a - 1) : h[b] # ";"
         IN Some(SubSeq(h, i + 1, j - 1))
    ELSE Null

\* Tokens atob accepts.
Base64Tokens == {"QUJD", "REVG"}

\* atob(s): the decoded bytes, or null when atob throws
atob(s) ==
    IF \A i \in 1..Len(s) : s[i] \in Base64Tokens
    THEN Some([i \in 1..Len(s) |-> IF s[i] = "QUJD" THEN "ABC" ELSE "DEF"])
    ELSE Null

\* dataURLtoFile that takes whatever the match captured for the MIME type
dataURLtoFileOfAnyType(dataurl) ==
    LET arr == split(dataurl, ",") IN
    IF Len(arr) < 2
    THEN [ok |-> FALSE, message |-> "Invalid data URL", type |-> <<>>, bytes |-> <<>>]
    ELSE LET m == mimeMatch(arr[1]) IN
         IF m = Null
         THEN [ok |-> FALSE, message |-> "Could not parse MIME type from data URL",
               type |-> <<>>, bytes |-> <<>>]
         ELSE LET bstr == atob(arr[2]) IN
              IF bstr = Null
              THEN [ok |-> FALSE, message |-> "InvalidCharacterError",
                    type |-> <<>>, bytes |-> <<>>]
              ELSE [ok |-> TRUE, message |-> "", type |-> m[1], bytes |-> bstr[1]]

\* dataURLtoFile: the File's type and bytes, or the message of the Error thrown
dataURLtoFile(dataurl) ==
    LET arr == split(dataurl, ",") IN
    IF Len(arr) < 2
    THEN [ok |-> FALSE, message |-> "Invalid data URL", type |-> <<>>, bytes |-> <<>>]
    ELSE LET m == mimeMatch(arr[1]) IN
         IF m = Null \/ m[1] = <<>>
         THEN [ok |-> FALSE, message |-> "Could not parse MIME type from data URL",
               type |-> <<>>, bytes |-> <<>>]
         ELSE LET bstr == atob(arr[2]) IN
              IF bstr = Null
              THEN [ok |-> FALSE, message |-> "InvalidCharacterError",
                    type |-> <<>>, bytes |-> <<>>]
              ELSE [ok |-> TRUE, message |-> "", type |-> m[1], bytes |-> bstr[1]]

PngUrl == <<"data", ":", "image/png", ";", "base64", ",", "QUJD">>

\* FileReader.readAsDataURL of the files a user can pick as a face: an image,
\* and an empty file, for which the result carries no payload and no comma.
FaceUrls == {<<"data", ":", "image/jpeg", ";", "base64", ",", "REVG">>,
             <<"data", ":">>}

\* What the external generation service can answer: a data URL (well formed,
\* or without a comma), or a rejection with an Error.
ServiceResponses ==
    {[resolved |-> TRUE, url |-> u, isError |-> FALSE, message |-> ""] :
        u \in {PngUrl, <<"data", ":", "image/png", ";", "base64">>}}
    \cup
    {[resolved |-> FALSE, url |-> <<>>, isError |-> TRUE, message |-> "service failed"]}

\* ------------------------------------------------------------ derived state
\* history[historyIndex] ?? null
currentImage ==
    IF historyIndex >= 0 /\ historyIndex < Len(history)
    THEN Some(history[historyIndex + 1]) ELSE Null

\* history[0] ?? null
originalImage == IF Len(history) > 0 THEN Some(history[1]) ELSE Null

\* canUndo without its lower bound
canUndoAtStart == historyIndex >= 0
canUndo == historyIndex > 0

\* canRedo off by one
canRedoAtEnd == historyIndex < Len(history)
canRedo == historyIndex < Len(history) - 1

\* the credential gate left out
noApiKeyUnchecked == FALSE

\* !apiKey: null and the empty string are both falsy
noApiKey == apiKey = Null \/ apiKey[1] = <<>>

\* The key action(apiKey) is handed; null is handed on as no key at all.
passedKey == IF apiKey = Null THEN <<>> ELSE apiKey[1]

\* renderContent: the error panel replaces everything else; with no image the
\* start screen shows unless a call is loading; otherwise the editor shows.
ErrorShown == error # Null
StartShown == error = Null /\ currentImage = Null /\ ~isLoading
EditorShown == error = Null /\ currentImage # Null

\* The modal's backdrop (fixed inset-0) lies over the whole page while it is open.
PageReachable == ~isApiKeyModalOpen

\* The loading overlay (absolute inset-0) lies over the image while a call is pending.
ImageReachable == PageReachable /\ EditorShown /\ ~isLoading

\* FilterPanel and AdjustmentPanel receive isLoading and disable their controls
\* while a call is pending.
PanelEnabled == ~isLoading

\* -------------------------------------------------------------- object URLs
\* An object URL: what it was created for ("current", "original" or
\* "download") and the File it refers to.
ObjectUrl(purpose, file) == [purpose |-> purpose, file |-> file]

\* URL.createObjectURL(file)
createObjectURL(urls, purpose, file) == urls \cup {ObjectUrl(purpose, file)}

\* a revokeObjectURL that releases nothing
revokeObjectURLLeaking(urls, purpose, file) == urls

\* URL.revokeObjectURL(url)
revokeObjectURL(urls, purpose, file) == urls \ {ObjectUrl(purpose, file)}

\* One of the two effects, run after a render in which its dependency went
\* from `old` to `new`: React runs the cleanup the previous run returned
\* (it returned one when `old` was an image), then the effect again.
objectUrlEffect(urls, purpose, old, new) ==
    IF new = old THEN urls
    ELSE LET cleaned == IF old # Null THEN revokeObjectURL(urls, purpose, old[1])
                        ELSE urls
         IN IF new # Null THEN createObjectURL(cleaned, purpose, new[1]) ELSE cleaned

\* currentImageUrl and originalImageUrl after the effects have run.
currentImageUrl ==
    IF currentImage = Null THEN Null
    ELSE Some(ObjectUrl("current", currentImage[1]))
originalImageUrl ==
    IF originalImage = Null THEN Null
    ELSE Some(ObjectUrl("original", originalImage[1]))

\* The effects on [currentImage] and on [originalImage], which React runs
\* after the render that follows a task, before the next task.
useEffectObjectUrls ==
    objectUrls' = objectUrlEffect(
                      objectUrlEffect(objectUrls, "current", currentImage, currentImage'),
                      "original", originalImage, originalImage')

\* ------------------------------------------------------------- bookkeeping
CallIds == 1..MaxCalls

NoCall == [kind |-> "none", hist |-> <<>>, idx |-> -1, face |-> <<>>,
           status |-> "none", key |-> <<>>, invoked |-> 0]

\* A request whose closure nothing refers to any more: what became of it
\* ("done": its action ran to its finally block; "dropped": the modal was
\* closed on it) and the number of service invocations made for it are kept.
Closed(closure, outcome) ==
    [NoCall EXCEPT !.status = outcome, !.invoked = closure.invoked]

OpenCalls == {c \in CallIds : calls[c].status \in {"held", "timer", "inflight"}}
InFlight == {c \in CallIds : calls[c].status = "inflight"}

\* A File id is free for this task and for every request still open.
FileAvailable == nextFile + Cardinality(OpenCalls) <= limits.files
CallAvailable == nextCall <= limits.calls /\ nextCall <= MaxCalls /\ FileAvailable

Op(name, result) == [op |-> name, result |-> result]

\* -------------------------------------------------------------------- Init
\* sessionStorage at page load: empty, or the key a previous load stored.
StoredKeys == {Null, Some(<<"s">>)}

InitWithin(maxFiles, maxCalls) ==
    /\ limits = [files |-> maxFiles, calls |-> maxCalls]
    /\ history = <<>>
    /\ historyIndex = -1
    /\ prompt = <<>>
    /\ isLoading = FALSE
    /\ error = Null
    /\ editHotspot = Null
    /\ displayHotspot = Null
    /\ activeTab = "retouch"
    /\ completedCrop = Null
    /\ sessionKey \in StoredKeys
    /\ apiKey = sessionKey
    /\ isApiKeyModalOpen = FALSE
    /\ modalKey = <<>>
    /\ pendingAction = Null
    /\ calls = [c \in CallIds |-> NoCall]
    /\ nextFile = 1
    /\ nextCall = 1
    /\ lastOp = Op("init", "none")
    /\ objectUrls = {}

\* The face library is left alone: nothing stored, nothing shown, no read.
LibraryIdle ==
    /\ faces = <<>> /\ storedFaces = <<>> /\ reads = {} /\ readsStarted = 0
    /\ selectedFace = Null /\ librarySelectedFace = Null /\ startTab = "generate"

\* No helper function is applied on its own.
PureIdle == arg = Null /\ ret = Null

Init == InitWithin(MaxFiles, MaxCalls) /\ LibraryIdle /\ PureIdle

\* ------------------------------------------------------------ history store
\* addImageToHistory with the index set to the new length
addImageToHistoryPastEnd(h, i, newImageFile) ==
    LET newHistory == Append(SubSeq(h, 1, i + 1), newImageFile)
    IN <<newHistory, Len(newHistory)>>

\* addImageToHistory that appends at the end of the whole history
addImageToHistoryAtEnd(h, i, newImageFile) ==
    LET newHistory == Append(h, newImageFile)
    IN <<newHistory, Len(newHistory) - 1>>

\* addImageToHistory, with the history and historyIndex its closure holds:
\* the new <<history, historyIndex>>
addImageToHistory(h, i, newImageFile) ==
    LET newHistory == Append(SubSeq(h, 1, i + 1), newImageFile)
    IN <<newHistory, Len(newHistory) - 1>>

\* handleImageUpload that leaves the tab as it was
handleImageUploadKeepingTab ==
    /\ PageReachable /\ StartShown
    /\ FileAvailable
    /\ error' = Null
    /\ history' = <<nextFile>>
    /\ historyIndex' = 0
    /\ editHotspot' = Null
    /\ displayHotspot' = Null
    /\ completedCrop' = Null
    /\ nextFile' = nextFile + 1
    /\ lastOp' = Op("upload", "applied")
    /\ UNCHANGED <<prompt, isLoading, apiKey, sessionKey, isApiKeyModalOpen,
                   pendingAction, calls, nextCall, activeTab,
                   limits, modalKey, libraryVars, pureVars>>
    /\ useEffectObjectUrls

\* handleImageUpload
handleImageUpload ==
    /\ PageReachable /\ StartShown
    /\ FileAvailable
    /\ error' = Null
    /\ history' = <<nextFile>>
    /\ historyIndex' = 0
    /\ editHotspot' = Null
    /\ displayHotspot' = Null
    /\ activeTab' = "retouch"
    /\ completedCrop' = Null
    /\ nextFile' = nextFile + 1
    /\ lastOp' = Op("upload", "applied")
    /\ UNCHANGED <<prompt, isLoading, apiKey, sessionKey, isApiKeyModalOpen,
                   pendingAction, calls, nextCall,
                   limits, modalKey, libraryVars, pureVars>>
    /\ useEffectObjectUrls

\* handleUndo that leaves the marker of the hotspot on the image
handleUndoKeepingMarker ==
    /\ PageReachable /\ EditorShown
    /\ IF canUndo
       THEN /\ historyIndex' = historyIndex - 1
            /\ editHotspot' = Null
            /\ UNCHANGED displayHotspot
       ELSE UNCHANGED <<historyIndex, editHotspot, displayHotspot>>
    /\ lastOp' = Op("undo", IF canUndo THEN "moved" ELSE "none")
    /\ UNCHANGED <<history, prompt, isLoading, error, activeTab, completedCrop,
                   apiKey, sessionKey, isApiKeyModalOpen, pendingAction, calls,
                   nextFile, nextCall,
                   limits, modalKey, libraryVars, pureVars>>
    /\ useEffectObjectUrls

\* handleUndo
handleUndo ==
    /\ PageReachable /\ EditorShown
    /\ IF canUndo
       THEN /\ historyIndex' = historyIndex - 1
            /\ editHotspot' = Null
            /\ displayHotspot' = Null
       ELSE UNCHANGED <<historyIndex, editHotspot, displayHotspot>>
    /\ lastOp' = Op("undo", IF canUndo THEN "moved" ELSE "none")
    /\ UNCHANGED <<history, prompt, isLoading, error, activeTab, completedCrop,
                   apiKey, sessionKey, isApiKeyModalOpen, pendingAction, calls,
                   nextFile, nextCall,
                   limits, modalKey, libraryVars, pureVars>>
    /\ useEffectObjectUrls

\* handleRedo
handleRedo ==
    /\ PageReachable /\ EditorShown
    /\ IF canRedo
       THEN /\ historyIndex' = historyIndex + 1
            /\ editHotspot' = Null
            /\ displayHotspot' = Null
       ELSE UNCHANGED <<historyIndex, editHotspot, displayHotspot>>
    /\ lastOp' = Op("redo", IF canRedo THEN "moved" ELSE "none")
    /\ UNCHANGED <<history, prompt, isLoading, error, activeTab, completedCrop,
                   apiKey, sessionKey, isApiKeyModalOpen, pendingAction, calls,
                   nextFile, nextCall,
                   limits, modalKey, libraryVars, pureVars>>
    /\ useEffectObjectUrls

\* handleReset that also discards the forward history
handleResetTruncating ==
    /\ PageReachable /\ EditorShown
    /\ history' = IF Len(history) > 0 THEN SubSeq(history, 1, 1) ELSE history
    /\ IF Len(history) > 0
       THEN /\ historyIndex' = 0
            /\ error' = Null
            /\ editHotspot' = Null
            /\ displayHotspot' = Null
       ELSE UNCHANGED <<historyIndex, error, editHotspot, displayHotspot>>
    /\ lastOp' = Op("reset", "none")
    /\ UNCHANGED <<prompt, isLoading, activeTab, completedCrop,
                   apiKey, sessionKey, isApiKeyModalOpen, pendingAction, calls,
                   nextFile, nextCall,
                   limits, modalKey, libraryVars, pureVars>>
    /\ useEffectObjectUrls

\* handleReset
handleReset ==
    /\ PageReachable /\ EditorShown
    /\ IF Len(history) > 0
       THEN /\ historyIndex' = 0
            /\ error' = Null
            /\ editHotspot' = Null
            /\ displayHotspot' = Null
       ELSE UNCHANGED <<historyIndex, error, editHotspot, displayHotspot>>
    /\ lastOp' = Op("reset", "none")
    /\ UNCHANGED <<history, prompt, isLoading, activeTab, completedCrop,
                   apiKey, sessionKey, isApiKeyModalOpen, pendingAction, calls,
                   nextFile, nextCall,
                   limits, modalKey, libraryVars, pureVars>>
    /\ useEffectObjectUrls

\* handleUploadNew that leaves the hotspot where it was
handleUploadNewKeepingHotspot ==
    /\ PageReachable /\ EditorShown
    /\ history' = <<>>
    /\ historyIndex' = -1
    /\ error' = Null
    /\ prompt' = <<>>
    /\ lastOp' = Op("uploadNew", "none")
    /\ UNCHANGED <<isLoading, activeTab, completedCrop, apiKey, sessionKey,
                   isApiKeyModalOpen, pendingAction, calls, nextFile, nextCall,
                   editHotspot, displayHotspot,
                   limits, modalKey, libraryVars, pureVars>>
    /\ useEffectObjectUrls

\* handleUploadNew that also abandons the calls in flight
handleUploadNewCancelling ==
    /\ PageReachable /\ EditorShown
    /\ history' = <<>>
    /\ historyIndex' = -1
    /\ error' = Null
    /\ prompt' = <<>>
    /\ editHotspot' = Null
    /\ displayHotspot' = Null
    /\ isLoading' = FALSE
    /\ calls' = [c \in CallIds |->
                    IF calls[c].status = "inflight"
                    THEN Closed(calls[c], "dropped") ELSE calls[c]]
    /\ lastOp' = Op("uploadNew", "none")
    /\ UNCHANGED <<activeTab, completedCrop, apiKey, sessionKey,
                   isApiKeyModalOpen, pendingAction, nextFile, nextCall,
                   limits, modalKey, libraryVars, pureVars>>
    /\ useEffectObjectUrls

\* handleUploadNew
handleUploadNew ==
    /\ PageReachable /\ EditorShown
    /\ history' = <<>>
    /\ historyIndex' = -1
    /\ error' = Null
    /\ prompt' = <<>>
    /\ editHotspot' = Null
    /\ displayHotspot' = Null
    /\ lastOp' = Op("uploadNew", "none")
    /\ UNCHANGED <<isLoading, activeTab, completedCrop, apiKey, sessionKey,
                   isApiKeyModalOpen, pendingAction, calls, nextFile, nextCall,
                   limits, modalKey, libraryVars, pureVars>>
    /\ useEffectObjectUrls

\* handleDownload: the link's URL is created and revoked within the handler.
handleDownload ==
    /\ PageReachable /\ EditorShown
    /\ IF currentImage # Null
       THEN LET created == createObjectURL(objectUrls, "download", currentImage[1])
            IN objectUrls' = revokeObjectURL(created, "download", currentImage[1])
       ELSE UNCHANGED objectUrls
    /\ lastOp' = Op("download", "none")
    /\ UNCHANGED <<history, historyIndex, prompt, isLoading, error, editHotspot,
                   displayHotspot, activeTab, completedCrop, apiKey, sessionKey,
                   isApiKeyModalOpen, pendingAction, calls, nextFile, nextCall,
                   limits, modalKey, libraryVars, pureVars>>

\* --------------------------------------------------------- generation calls
\* The closure `action` of a handler: the values it captured at the request.
NewCall(kind, face) ==
    [kind |-> kind, hist |-> history, idx |-> historyIndex, face |-> face,
     status |-> "held", key |-> <<>>, invoked |-> 0]

\* The prefix each action's catch block puts before the message.
failurePrefix(kind) ==
    CASE kind = "memory" -> "Failed to create memory."
      [] kind = "edit" -> "Failed to generate the image."
      [] kind = "filter" -> "Failed to apply the filter."
      [] kind = "adjust" -> "Failed to apply the adjustment."

\* a catch block that also throws the history away
catchBlockResetting(kind, message) ==
    /\ error' = <<failurePrefix(kind), message>>
    /\ history' = <<>>
    /\ historyIndex' = -1

\* The catch block of an action: setError(`${prefix} ${errorMessage}`); the
\* history is not touched.
catchBlock(kind, message) ==
    /\ error' = <<failurePrefix(kind), message>>
    /\ UNCHANGED <<history, historyIndex>>

\* a catch block that invokes the service once more
afterFailureRetrying(closure) ==
    IF closure.status = "inflight" /\ closure.invoked < 2
    THEN [closure EXCEPT !.invoked = @ + 1]
    ELSE Closed(closure, "done")

\* What is left of a request once its catch and finally blocks have run.
afterFailure(closure) == Closed(closure, "done")

\* action(key) up to its first await: setIsLoading(true), setError(null) and
\* the service is invoked; create-memory converts the face first, and when
\* that throws the catch and finally blocks run in the same task. (face and
\* thrown are bound by \E so that each is computed once in a step.)
runAction(name, c, closure, key) ==
    \E face \in {dataURLtoFile(closure.face)} :
    \E thrown \in {closure.kind = "memory" /\ ~face.ok} :
       /\ isLoading' = ~thrown
       /\ IF thrown THEN catchBlock(closure.kind, face.message)
          ELSE error' = Null /\ UNCHANGED <<history, historyIndex>>
       /\ calls' = [calls EXCEPT ![c] =
              IF thrown THEN afterFailure(closure)
              ELSE [closure EXCEPT !.status = "inflight", !.key = key,
                                   !.invoked = @ + 1]]
       /\ lastOp' = Op(name, IF thrown THEN "failed" ELSE "started")

\* if (!apiKey) { setPendingAction(() => action); setIsApiKeyModalOpen(true) }
\* else action(apiKey)
gate(name, c, closure) ==
    IF noApiKey
    THEN /\ pendingAction' = Some(c)
         /\ isApiKeyModalOpen' = TRUE
         /\ calls' = [calls EXCEPT ![c] = closure]
         /\ lastOp' = Op(name, "held")
         /\ UNCHANGED <<isLoading, error, history, historyIndex>>
    ELSE /\ runAction(name, c, closure, passedKey)
         /\ UNCHANGED <<pendingAction, isApiKeyModalOpen>>

\* StartScreen.handleGenerateClick and handleCreateMemory
handleCreateMemory ==
    /\ PageReachable /\ StartShown
    /\ CallAvailable
    /\ \E faceDataUrl \in FaceUrls, p \in TypedPrompts :
          /\ trim(p) # <<>>
          /\ ~isLoading
          /\ gate("createMemory", nextCall, NewCall("memory", faceDataUrl))
    /\ nextCall' = nextCall + 1
    /\ UNCHANGED <<prompt, editHotspot, displayHotspot, activeTab, completedCrop,
                   apiKey, sessionKey, nextFile,
                   limits, modalKey, libraryVars, pureVars>>
    /\ useEffectObjectUrls

\* handleGenerate without its test of the hotspot
handleGenerateWithoutHotspot ==
    /\ PageReachable /\ EditorShown
    /\ activeTab = "retouch"
    /\ ~isLoading
    /\ IF currentImage = Null
       THEN /\ error' = <<"No image loaded to edit.">>
            /\ lastOp' = Op("generate", "rejected")
            /\ UNCHANGED <<history, historyIndex, isLoading, pendingAction,
                           isApiKeyModalOpen, calls, nextCall>>
       ELSE IF trim(prompt) = <<>>
       THEN /\ error' = <<"Please enter a description for your edit.">>
            /\ lastOp' = Op("generate", "rejected")
            /\ UNCHANGED <<history, historyIndex, isLoading, pendingAction,
                           isApiKeyModalOpen, calls, nextCall>>
       ELSE /\ CallAvailable
            /\ gate("generate", nextCall, NewCall("edit", <<>>))
            /\ nextCall' = nextCall + 1
    /\ UNCHANGED <<prompt, editHotspot, displayHotspot, activeTab, completedCrop,
                   apiKey, sessionKey, nextFile,
                   limits, modalKey, libraryVars, pureVars>>
    /\ useEffectObjectUrls

\* handleGenerate, from the retouch form
handleGenerate ==
    /\ PageReachable /\ EditorShown
    /\ activeTab = "retouch"
    /\ ~isLoading
    /\ IF currentImage = Null
       THEN /\ error' = <<"No image loaded to edit.">>
            /\ lastOp' = Op("generate", "rejected")
            /\ UNCHANGED <<history, historyIndex, isLoading, pendingAction,
                           isApiKeyModalOpen, calls, nextCall>>
       ELSE IF trim(prompt) = <<>>
       THEN /\ error' = <<"Please enter a description for your edit.">>
            /\ lastOp' = Op("generate", "rejected")
            /\ UNCHANGED <<history, historyIndex, isLoading, pendingAction,
                           isApiKeyModalOpen, calls, nextCall>>
       ELSE IF editHotspot = Null
       THEN /\ error' = <<"Please click on the image to select an area to edit.">>
            /\ lastOp' = Op("generate", "rejected")
            /\ UNCHANGED <<history, historyIndex, isLoading, pendingAction,
                           isApiKeyModalOpen, calls, nextCall>>
       ELSE /\ CallAvailable
            /\ gate("generate", nextCall, NewCall("edit", <<>>))
            /\ nextCall' = nextCall + 1
    /\ UNCHANGED <<prompt, editHotspot, displayHotspot, activeTab, completedCrop,
                   apiKey, sessionKey, nextFile,
                   limits, modalKey, libraryVars, pureVars>>
    /\ useEffectObjectUrls

\* handleApplyFilter, from the filter panel
handleApplyFilter ==
    /\ PageReachable /\ EditorShown
    /\ activeTab = "filters"
    /\ PanelEnabled
    /\ IF currentImage = Null
       THEN /\ error' = <<"No image loaded to apply a filter to.">>
            /\ lastOp' = Op("applyFilter", "rejected")
            /\ UNCHANGED <<history, historyIndex, isLoading, pendingAction,
                           isApiKeyModalOpen, calls, nextCall>>
       ELSE /\ CallAvailable
            /\ gate("applyFilter", nextCall, NewCall("filter", <<>>))
            /\ nextCall' = nextCall + 1
    /\ UNCHANGED <<prompt, editHotspot, displayHotspot, activeTab, completedCrop,
                   apiKey, sessionKey, nextFile,
                   limits, modalKey, libraryVars, pureVars>>
    /\ useEffectObjectUrls

\* handleApplyAdjustment, from the adjustment panel
handleApplyAdjustment ==
    /\ PageReachable /\ EditorShown
    /\ activeTab = "adjust"
    /\ PanelEnabled
    /\ IF currentImage = Null
       THEN /\ error' = <<"No image loaded to apply an adjustment to.">>
            /\ lastOp' = Op("applyAdjustment", "rejected")
            /\ UNCHANGED <<history, historyIndex, isLoading, pendingAction,
                           isApiKeyModalOpen, calls, nextCall>>
       ELSE /\ CallAvailable
            /\ gate("applyAdjustment", nextCall, NewCall("adjust", <<>>))
            /\ nextCall' = nextCall + 1
    /\ UNCHANGED <<prompt, editHotspot, displayHotspot, activeTab, completedCrop,
                   apiKey, sessionKey, nextFile,
                   limits, modalKey, libraryVars, pureVars>>
    /\ useEffectObjectUrls

\* err instanceof Error ? err.message : 'An unknown error occurred.'
errorMessage(isError, message) ==
    IF isError THEN message ELSE "An unknown error occurred."

\* The rest of action(key) once the awaited service call has settled with r:
\* the try block's remainder, or the catch block, then the finally block.
serviceSettles(c, r) ==
    calls[c].status = "inflight" /\
    \E closure \in {calls[c]}, file \in {dataURLtoFile(r.url)} :
    \E ok \in {r.resolved /\ file.ok} :
    LET added == addImageToHistory(closure.hist, closure.idx, nextFile)
    IN /\ closure.status = "inflight"
       /\ IF ok
          THEN /\ IF closure.kind = "memory"
                  THEN /\ history' = <<nextFile>>
                       /\ historyIndex' = 0
                       /\ editHotspot' = Null
                       /\ displayHotspot' = Null
                       /\ activeTab' = "retouch"
                       /\ UNCHANGED completedCrop
                  ELSE /\ history' = added[1]
                       /\ historyIndex' = added[2]
                       /\ completedCrop' = Null
                       /\ IF closure.kind = "edit"
                          THEN editHotspot' = Null /\ displayHotspot' = Null
                          ELSE UNCHANGED <<editHotspot, displayHotspot>>
                       /\ UNCHANGED activeTab
               /\ nextFile' = nextFile + 1
               /\ UNCHANGED error
               /\ lastOp' = Op(closure.kind, "applied")
          ELSE /\ catchBlock(closure.kind,
                             IF r.resolved THEN file.message
                             ELSE errorMessage(r.isError, r.message))
               /\ lastOp' = Op(closure.kind, "failed")
               /\ UNCHANGED <<editHotspot, displayHotspot, activeTab,
                              completedCrop, nextFile>>
       /\ isLoading' = FALSE
       /\ calls' = [calls EXCEPT ![c] =
              IF ok THEN Closed(closure, "done") ELSE afterFailure(closure)]
       /\ UNCHANGED <<prompt, apiKey, sessionKey, isApiKeyModalOpen, pendingAction,
                      nextCall,
                      limits, modalKey, libraryVars, pureVars>>
       /\ useEffectObjectUrls

ServiceResponds == \E c \in CallIds, r \in ServiceResponses : serviceSettles(c, r)

\* ------------------------------------------------------------ API-key modal
\* The modal's key field: setKey(e.target.value)
setKey ==
    /\ isApiKeyModalOpen
    /\ \E typed \in TypedKeys : modalKey' = typed
    /\ lastOp' = Op("ui", "none")
    /\ UNCHANGED <<history, historyIndex, prompt, isLoading, error, editHotspot,
                   displayHotspot, activeTab, completedCrop, apiKey, sessionKey,
                   isApiKeyModalOpen, pendingAction, calls, nextFile, nextCall,
                   limits, libraryVars, pureVars>>
    /\ useEffectObjectUrls

\* a submit that keeps the key in memory only
handleApiKeySubmitNotStoring ==
    /\ isApiKeyModalOpen
    /\ LET trimmedKey == trim(trim(modalKey)) IN
       IF trim(modalKey) # <<>> /\ trimmedKey # <<>>
       THEN /\ apiKey' = Some(trimmedKey)
            /\ isApiKeyModalOpen' = FALSE
            /\ modalKey' = <<>>
            /\ IF pendingAction # Null
               THEN calls' = [calls EXCEPT ![pendingAction[1]].status = "timer",
                                           ![pendingAction[1]].key = trimmedKey]
               ELSE UNCHANGED calls
            /\ lastOp' = Op("apiKeySubmit", "accepted")
            /\ UNCHANGED sessionKey
       ELSE /\ UNCHANGED <<apiKey, sessionKey, isApiKeyModalOpen, modalKey, calls>>
            /\ lastOp' = Op("apiKeySubmit", "rejected")
    /\ UNCHANGED <<history, historyIndex, prompt, isLoading, error, editHotspot,
                   displayHotspot, activeTab, completedCrop, pendingAction,
                   nextFile, nextCall,
                   limits, libraryVars, pureVars>>
    /\ useEffectObjectUrls

\* ApiKeyModal.handleSubmit (the form's submit, with whatever the key field
\* holds), then handleApiKeySubmit; the timer it sets holds pendingAction and
\* trimmedKey.  Closing the modal unmounts it, and its field with it.
handleApiKeySubmit ==
    /\ isApiKeyModalOpen
    /\ LET trimmedKey == trim(trim(modalKey)) IN
       IF trim(modalKey) # <<>> /\ trimmedKey # <<>>
       THEN /\ apiKey' = Some(trimmedKey)
            /\ sessionKey' = Some(trimmedKey)
            /\ isApiKeyModalOpen' = FALSE
            /\ modalKey' = <<>>
            /\ IF pendingAction # Null
               THEN calls' = [calls EXCEPT ![pendingAction[1]].status = "timer",
                                           ![pendingAction[1]].key = trimmedKey]
               ELSE UNCHANGED calls
            /\ lastOp' = Op("apiKeySubmit", "accepted")
       ELSE /\ UNCHANGED <<apiKey, sessionKey, isApiKeyModalOpen, modalKey, calls>>
            /\ lastOp' = Op("apiKeySubmit", "rejected")
    /\ UNCHANGED <<history, historyIndex, prompt, isLoading, error, editHotspot,
                   displayHotspot, activeTab, completedCrop, pendingAction,
                   nextFile, nextCall,
                   limits, libraryVars, pureVars>>
    /\ useEffectObjectUrls

\* a timer callback that leaves the held action in place
timerFiresKeepingAction ==
    \E c \in CallIds :
       /\ calls[c].status = "timer"
       /\ runAction("timer", c, calls[c], calls[c].key)
       /\ UNCHANGED <<prompt, editHotspot, displayHotspot, activeTab,
                      completedCrop, apiKey, sessionKey, isApiKeyModalOpen,
                      nextFile, nextCall, pendingAction,
                      limits, modalKey, libraryVars, pureVars>>
       /\ useEffectObjectUrls

\* The callback of setTimeout(..., 100): pendingAction(trimmedKey);
\* setPendingAction(null)
timerFires ==
    \E c \in CallIds :
       /\ calls[c].status = "timer"
       /\ runAction("timer", c, calls[c], calls[c].key)
       /\ pendingAction' = Null
       /\ UNCHANGED <<prompt, editHotspot, displayHotspot, activeTab,
                      completedCrop, apiKey, sessionKey, isApiKeyModalOpen,
                      nextFile, nextCall,
                      limits, modalKey, libraryVars, pureVars>>
       /\ useEffectObjectUrls

\* an onClose that only hides the modal
closeApiKeyModalKeepingAction ==
    /\ isApiKeyModalOpen
    /\ isApiKeyModalOpen' = FALSE
    /\ modalKey' = <<>>
    /\ lastOp' = Op("closeModal", "none")
    /\ UNCHANGED <<history, historyIndex, prompt, isLoading, error, editHotspot,
                   displayHotspot, activeTab, completedCrop, apiKey, sessionKey,
                   pendingAction, calls, nextFile, nextCall,
                   limits, libraryVars, pureVars>>
    /\ useEffectObjectUrls

\* ApiKeyModal onClose (backdrop or 'Maybe later')
closeApiKeyModal ==
    /\ isApiKeyModalOpen
    /\ isApiKeyModalOpen' = FALSE
    /\ pendingAction' = Null
    /\ calls' = IF pendingAction # Null
                THEN [calls EXCEPT ![pendingAction[1]] = Closed(@, "dropped")]
                ELSE calls
    /\ modalKey' = <<>>
    /\ lastOp' = Op("closeModal", "none")
    /\ UNCHANGED <<history, historyIndex, prompt, isLoading, error, editHotspot,
                   displayHotspot, activeTab, completedCrop, apiKey, sessionKey,
                   nextFile, nextCall,
                   limits, libraryVars, pureVars>>
    /\ useEffectObjectUrls

\* ---------------------------------------------------------- editor controls
Tabs == {"retouch", "crop", "adjust", "filters"}

\* The tab buttons: setActiveTab(tab)
setActiveTab ==
    /\ PageReachable /\ EditorShown
    /\ \E tab \in Tabs : activeTab' = tab
    /\ lastOp' = Op("ui", "none")
    /\ UNCHANGED <<history, historyIndex, prompt, isLoading, error, editHotspot,
                   displayHotspot, completedCrop, apiKey, sessionKey,
                   isApiKeyModalOpen, pendingAction, calls, nextFile, nextCall,
                   limits, modalKey, libraryVars, pureVars>>
    /\ useEffectObjectUrls

\* The prompt field: setPrompt(e.target.value); disabled={isLoading || !editHotspot}
setPrompt ==
    /\ PageReachable /\ EditorShown
    /\ activeTab = "retouch"
    /\ ~(isLoading \/ editHotspot = Null)
    /\ \E p \in TypedPrompts : prompt' = p
    /\ lastOp' = Op("ui", "none")
    /\ UNCHANGED <<history, historyIndex, isLoading, error, editHotspot,
                   displayHotspot, activeTab, completedCrop, apiKey, sessionKey,
                   isApiKeyModalOpen, pendingAction, calls, nextFile, nextCall,
                   limits, modalKey, libraryVars, pureVars>>
    /\ useEffectObjectUrls

\* The 'Try Again' button of the error panel: setError(null)
dismissError ==
    /\ PageReachable /\ ErrorShown
    /\ error' = Null
    /\ lastOp' = Op("ui", "none")
    /\ UNCHANGED <<history, historyIndex, prompt, isLoading, editHotspot,
                   displayHotspot, activeTab, completedCrop, apiKey, sessionKey,
                   isApiKeyModalOpen, pendingAction, calls, nextFile, nextCall,
                   limits, modalKey, libraryVars, pureVars>>
    /\ useEffectObjectUrls

\* ----------------------------------------------------------------- hotspot
\* The displayed image: its native and its displayed size.
Image == [naturalWidth |-> 4, naturalHeight |-> 6, clientWidth |-> 2, clientHeight |-> 4]

\* Where the user clicks: offsets from the image's top-left corner.
Clicks == {[x |-> 1, y |-> 3]}

\* a Math.round that cuts the fraction off
mathTrunc(n, d) == n \div d

\* Math.round(n / d) for n >= 0, d > 0: halves round up
mathRound(n, d) == (2 * n + d) \div (2 * d)

\* Math.round(offset * (natural / client)), were the arithmetic exact
scaleToNative(offset, natural, client) == mathRound(offset * natural, client)

RECURSIVE gcd(_, _)
gcd(a, b) == IF b = 0 THEN a ELSE gcd(b, a % b)

RECURSIVE isPowerOfTwo(_)
isPowerOfTwo(n) == n = 1 \/ (n % 2 = 0 /\ isPowerOfTwo(n \div 2))

\* natural / client is a double without rounding error: the denominator of
\* the reduced fraction is a power of two (the sizes are small integers).
quotientIsExact(natural, client) == isPowerOfTwo(client \div gcd(natural, client))

\* Math.round(offset * (natural / client)) in doubles.  The quotient is
\* rounded to a double before it is multiplied.  A product whose exact value
\* is k + 1/2 can then come out just below it and be rounded to k (offset 11
\* on 22 displayed and 15 native pixels gives 7.499999999999999); any other
\* exact value is at least 1/(2 * client) away from a half, far more than
\* the error of the product, and rounds as it would exactly.
scaleToNativeDoubles(offset, natural, client) ==
    LET exact == scaleToNative(offset, natural, client)
        halfWay == (2 * offset * natural) % (2 * client) = client
    IN IF halfWay /\ ~quotientIsExact(natural, client)
       THEN {exact - 1, exact}
       ELSE {exact}

\* handleImageClick
handleImageClick ==
    /\ ImageReachable
    /\ activeTab # "crop"
    /\ \E click \in Clicks :
          IF activeTab # "retouch"
          THEN UNCHANGED <<displayHotspot, editHotspot>>
          ELSE /\ displayHotspot' = Some(click)
               /\ \E originalX \in scaleToNativeDoubles(click.x, Image.naturalWidth,
                                                         Image.clientWidth),
                      originalY \in scaleToNativeDoubles(click.y, Image.naturalHeight,
                                                         Image.clientHeight) :
                     editHotspot' = Some([x |-> originalX, y |-> originalY])
    /\ lastOp' = Op("ui", "none")
    /\ UNCHANGED <<history, historyIndex, prompt, isLoading, error, activeTab,
                   completedCrop, apiKey, sessionKey, isApiKeyModalOpen,
                   pendingAction, calls, nextFile, nextCall,
                   limits, modalKey, libraryVars, pureVars>>
    /\ useEffectObjectUrls

\* -------------------------------------------------------------------- crop
\* The selections ReactCrop reports: a drag along one axis only (2 wide and
\* 0 high), and a rectangle.
PixelCrops == {[x |-> 0, y |-> 1, width |-> 2, height |-> 0],
               [x |-> 0, y |-> 1, width |-> 2, height |-> 1]}

\* ReactCrop onComplete: setCompletedCrop(c)
cropComplete ==
    /\ ImageReachable
    /\ activeTab = "crop"
    /\ \E c \in PixelCrops : completedCrop' = Some(c)
    /\ lastOp' = Op("ui", "none")
    /\ UNCHANGED <<history, historyIndex, prompt, isLoading, error, editHotspot,
                   displayHotspot, activeTab, apiKey, sessionKey,
                   isApiKeyModalOpen, pendingAction, calls, nextFile, nextCall,
                   limits, modalKey, libraryVars, pureVars>>
    /\ useEffectObjectUrls

\* a toDataURL that encodes an image whatever the canvas holds
toDataURLOfAnySize(width, height) == PngUrl

\* canvas.toDataURL('image/png'): a canvas without pixels gives "data:,"
toDataURL(width, height) ==
    IF width * height = 0 THEN <<"data", ":", ",">> ELSE PngUrl

\* an early return that sets no error
rejectCropSilently(message) ==
    /\ lastOp' = Op("applyCrop", "rejected")
    /\ UNCHANGED <<error, history, historyIndex, completedCrop, nextFile>>

\* setError(message); return
rejectCrop(message) ==
    /\ error' = <<message>>
    /\ lastOp' = Op("applyCrop", "rejected")
    /\ UNCHANGED <<history, historyIndex, completedCrop, nextFile>>

\* handleApplyCrop, from the crop panel's button (disabled while loading).
\* imgRef.current is the image the editor shows.  An Error thrown by
\* dataURLtoFile is not caught here: the handler ends and no state is set.
handleApplyCrop ==
    /\ PageReachable /\ EditorShown
    /\ activeTab = "crop"
    /\ ~isLoading
    /\ \E contextAvailable \in BOOLEAN :
          IF completedCrop = Null \/ currentImage = Null
          THEN rejectCrop("Please select an area to crop.")
          ELSE IF ~contextAvailable
          THEN rejectCrop("Could not process the crop.")
          ELSE LET file == dataURLtoFile(toDataURL(completedCrop[1].width,
                                                   completedCrop[1].height))
                   added == addImageToHistory(history, historyIndex, nextFile)
               IN IF ~file.ok
                  THEN /\ lastOp' = Op("applyCrop", "thrown")
                       /\ UNCHANGED <<history, historyIndex, completedCrop,
                                      nextFile, error>>
                  ELSE /\ FileAvailable
                       /\ history' = added[1]
                       /\ historyIndex' = added[2]
                       /\ completedCrop' = Null
                       /\ nextFile' = nextFile + 1
                       /\ lastOp' = Op("applyCrop", "applied")
                       /\ UNCHANGED error
    /\ UNCHANGED <<prompt, isLoading, editHotspot, displayHotspot, activeTab,
                   apiKey, sessionKey, isApiKeyModalOpen, pendingAction, calls,
                   nextCall,
                   limits, modalKey, libraryVars, pureVars>>
    /\ useEffectObjectUrls

\* The App's own state, which the face library does not touch.
appVars == <<history, historyIndex, prompt, isLoading, error, editHotspot,
             displayHotspot, activeTab, completedCrop, apiKey, sessionKey,
             isApiKeyModalOpen, modalKey, pendingAction, calls, nextFile,
             nextCall, limits, lastOp, objectUrls>>

\* ------------------------------------------------------------ face library
\* The FaceLibrary component of the start screen, which keeps the faces it
\* shows in its own state and in localStorage.  A face is the data URL
\* FileReader makes of the file picked, named here by the file.

\* a library that takes a sixth face
MaxFacesAndOne == 5 + 1

\* if (faces.length < 5), and faces.length < 5 && (the Add Face control)
MaxFaces == 5

\* The files a user can pick as a face.
FaceFiles == {"a", "b"}

\* Files that can be picked as a face in one run.
MaxReads == 3

\* faces.filter(face => face !== faceToDelete)
RECURSIVE filterOut(_, _)
filterOut(list, faceToDelete) ==
    IF list = <<>> THEN <<>>
    ELSE IF Head(list) = faceToDelete THEN filterOut(Tail(list), faceToDelete)
    ELSE <<Head(list)>> \o filterOut(Tail(list), faceToDelete)

\* saveFacesToStorage: localStorage.setItem, which can throw (the quota); the
\* exception is caught and the stored list stays as it was.
saveFacesToStorage(updatedFaces) == storedFaces' \in {updatedFaces, storedFaces}

\* handleFileAdd up to reader.readAsDataURL(file): the onload closure holds
\* the faces of the render the file was picked in, and the setFaces of the
\* component that is mounted now.
handleFileAdd ==
    /\ PageReachable /\ StartShown
    /\ startTab = "generate"
    /\ Len(faces) < MaxFaces
    /\ ~isLoading
    /\ readsStarted < MaxReads
    /\ \E file \in FaceFiles :
          reads' = reads \cup {[faces |-> faces, file |-> file, mounted |-> TRUE]}
    /\ readsStarted' = readsStarted + 1
    /\ UNCHANGED <<faces, storedFaces, selectionVars>>
    /\ UNCHANGED <<appVars, pureVars>>

\* reader.onload of one of the reads in progress; setFaces of a component
\* that has been unmounted sets nothing.
readerLoads ==
    /\ \E r \in reads :
          /\ IF Len(r.faces) < MaxFaces
             THEN LET updatedFaces == Append(r.faces, r.file)
                  IN /\ faces' = IF r.mounted THEN updatedFaces ELSE faces
                     /\ saveFacesToStorage(updatedFaces)
             ELSE UNCHANGED <<faces, storedFaces>>
          /\ reads' = reads \ {r}
    /\ UNCHANGED <<readsStarted, selectionVars, appVars, pureVars>>

\* handleSelectFace, from a click on one of the faces shown:
\* setSelectedFace(newSelection); onFaceSelect(newSelection)
handleSelectFace ==
    /\ PageReachable /\ StartShown
    /\ startTab = "generate"
    /\ ~isLoading
    /\ \E i \in 1..Len(faces) :
          LET newSelection == IF librarySelectedFace = Some(faces[i])
                              THEN Null ELSE Some(faces[i])
          IN /\ librarySelectedFace' = newSelection
             /\ selectedFace' = newSelection
    /\ UNCHANGED <<faces, storedFaces, reads, readsStarted, startTab>>
    /\ UNCHANGED <<appVars, pureVars>>

\* handleDeleteFace, from the delete button of one of the faces shown
handleDeleteFace ==
    /\ PageReachable /\ StartShown
    /\ startTab = "generate"
    /\ ~isLoading
    /\ \E i \in 1..Len(faces) :
          LET updatedFaces == filterOut(faces, faces[i])
          IN /\ faces' = updatedFaces
             /\ saveFacesToStorage(updatedFaces)
             /\ IF librarySelectedFace = Some(faces[i])
                THEN librarySelectedFace' = Null /\ selectedFace' = Null
                ELSE UNCHANGED <<librarySelectedFace, selectedFace>>
    /\ UNCHANGED <<reads, readsStarted, startTab>>
    /\ UNCHANGED <<appVars, pureVars>>

\* The start screen's tab buttons: setActiveTab(tab).  With 'upload' the
\* FaceLibrary is not rendered: it is unmounted and its state is gone, while
\* the reads it started go on.  Back on 'generate' a new FaceLibrary is
\* mounted, with nothing selected and the faces its effect finds in storage.
\* StartScreen's own selectedFace outlives both.
setStartTab ==
    /\ PageReachable /\ StartShown
    /\ \E tab \in {"generate", "upload"} :
          /\ startTab' = tab
          /\ IF tab = startTab
             THEN UNCHANGED <<faces, librarySelectedFace, reads>>
             ELSE /\ faces' = IF tab = "generate" THEN storedFaces ELSE <<>>
                  /\ librarySelectedFace' = Null
                  /\ reads' = {[r EXCEPT !.mounted = FALSE] : r \in reads}
    /\ UNCHANGED <<storedFaces, readsStarted, selectedFace>>
    /\ UNCHANGED <<appVars, pureVars>>

\* The effect FaceLibrary runs when it is mounted: the App has shown something
\* else than the start screen and shows it again, with a new FaceLibrary.
\* Reads started by the old one go on.
libraryMounts ==
    /\ faces' = storedFaces
    /\ reads' = {[r EXCEPT !.mounted = FALSE] : r \in reads}
    /\ selectedFace' = Null
    /\ librarySelectedFace' = Null
    /\ startTab' = "generate"
    /\ UNCHANGED <<storedFaces, readsStarted>>
    /\ UNCHANGED <<appVars, pureVars>>

\* localStorage when the page is loaded: nothing, or what an earlier visit left.
StoredFaceLists == {<<>>, <<"a", "b", "a", "b">>}

LibraryInit ==
    /\ InitWithin(MaxFiles, MaxCalls)
    /\ sessionKey = Null
    /\ PureIdle
    /\ storedFaces \in StoredFaceLists
    /\ faces = storedFaces
    /\ reads = {}
    /\ readsStarted = 0
    /\ selectedFace = Null
    /\ librarySelectedFace = Null
    /\ startTab = "generate"

LibraryNext ==
    \/ handleFileAdd
    \/ readerLoads
    \/ handleDeleteFace
    \/ libraryMounts

LibrarySpec == LibraryInit /\ [][LibraryNext]_vars

\* The start screen with its FaceLibrary, the selection of a face and the
\* two tabs.
StartScreenNext ==
    \/ LibraryNext
    \/ handleSelectFace
    \/ setStartTab

StartScreenSpec == LibraryInit /\ [][StartScreenNext]_vars

\* ------------------------------------------------- helper functions alone
\* The scaling of handleImageClick applied to clicks on images of all small
\* sizes; dataURLtoFile applied to all short strings.

\* The largest width or height of an image, native or displayed.
MaxSide == 6

Sides == 1..MaxSide

\* A click: the image's sizes and the offsets of the click within it.
ScaleInputs ==
    {[offsetX |-> ox, offsetY |-> oy, naturalWidth |-> nw, naturalHeight |-> nh,
      clientWidth |-> cw, clientHeight |-> ch] :
        ox \in 0..MaxSide, oy \in 0..MaxSide, nw \in Sides, nh \in Sides,
        cw \in Sides, ch \in Sides}

ScaleInit ==
    /\ InitWithin(MaxFiles, MaxCalls)
    /\ sessionKey = Null
    /\ LibraryIdle
    /\ \E a \in ScaleInputs :
          /\ a.offsetX <= a.clientWidth
          /\ a.offsetY <= a.clientHeight
          /\ arg = Some(a)
    /\ ret = Null

\* handleImageClick from its reading of the image's sizes on: the hotspot
\* it hands to setEditHotspot.
scaleClick ==
    /\ arg # Null /\ ret = Null
    /\ \E originalX \in scaleToNativeDoubles(arg[1].offsetX, arg[1].naturalWidth,
                                              arg[1].clientWidth),
           originalY \in scaleToNativeDoubles(arg[1].offsetY, arg[1].naturalHeight,
                                              arg[1].clientHeight) :
          ret' = Some([x |-> originalX, y |-> originalY])
    /\ UNCHANGED <<arg, appVars, libraryVars>>

ScaleNext == scaleClick

ScaleSpec == ScaleInit /\ [][ScaleNext]_vars

\* The longest string handed to dataURLtoFile, in tokens.
MaxUrlLen == 5

\* What the strings are made of.
UrlTokens == {"data", ":", "image/png", ";", ",", "QUJD"}

RECURSIVE StringsOfLength(_)
StringsOfLength(n) ==
    IF n = 0 THEN {<<>>}
    ELSE {Append(t, c) : t \in StringsOfLength(n - 1), c \in UrlTokens}

DataUrlInit ==
    /\ InitWithin(MaxFiles, MaxCalls)
    /\ sessionKey = Null
    /\ LibraryIdle
    /\ \E n \in 0..MaxUrlLen : \E dataurl \in StringsOfLength(n) : arg = Some(dataurl)
    /\ ret = Null

\* dataURLtoFile(dataurl, filename): what it returns or throws
convertDataUrl ==
    /\ arg # Null /\ ret = Null
    /\ ret' = Some(dataURLtoFile(arg[1]))
    /\ UNCHANGED <<arg, appVars, libraryVars>>

DataUrlNext == convertDataUrl

DataUrlSpec == DataUrlInit /\ [][DataUrlNext]_vars

\* --------------------------------------------------------------------- Next
Next ==
    \/ handleImageUpload
    \/ handleCreateMemory
    \/ handleGenerate
    \/ handleApplyFilter
    \/ handleApplyAdjustment
    \/ handleApplyCrop
    \/ handleUndo
    \/ handleRedo
    \/ handleReset
    \/ handleUploadNew
    \/ handleImageClick
    \/ cropComplete
    \/ setActiveTab
    \/ setPrompt
    \/ dismissError
    \/ setKey
    \/ handleApiKeySubmit
    \/ timerFires
    \/ closeApiKeyModal
    \/ ServiceResponds

Spec == Init /\ [][Next]_vars

\* The external service answers every call it is sent.
ServiceFairness ==
    \A c \in CallIds : WF_vars(\E r \in ServiceResponses : serviceSettles(c, r))

LiveInit == InitWithin(LiveMaxFiles, LiveMaxCalls) /\ LibraryIdle /\ PureIdle

LiveSpec == LiveInit /\ [][Next]_vars /\ ServiceFairness

\* Shorter runs: the files of Spec with the calls of LiveSpec.
ShortInit == InitWithin(MaxFiles, LiveMaxCalls) /\ LibraryIdle /\ PureIdle

ShortSpec == ShortInit /\ [][Next]_vars

\* The editor with its Download button, which changes nothing of the App's
\* state and is left out of Next.
DownloadNext ==
    \/ Next
    \/ handleDownload

DownloadSpec == LiveInit /\ [][DownloadNext]_vars

\* A timer that has been set fires.
TimerSpec == LiveInit /\ [][Next]_vars /\ WF_vars(timerFires)

\* ------------------------------------------------------------------ claims
EditKinds == {"edit", "filter", "adjust"}
CallKinds == EditKinds \cup {"memory"}

\* C1: in every reachable state the history position is -1 exactly when the
\* history is empty, and otherwise lies in 0 .. length-1.
C1_PositionInBounds ==
    /\ (historyIndex = -1) <=> (history = <<>>)
    /\ history # <<>> => (0 <= historyIndex /\ historyIndex <= Len(history) - 1)

\* An undo has moved the position back to the start of a history that holds
\* an artifact appended by an edit.
C1_Witness ==
    /\ lastOp.op = "undo"
    /\ Len(history) >= 2
    /\ historyIndex = 0

\* C2: whenever an edit (generation, filter, adjustment or crop) appends an
\* artifact, the history becomes the history held just before the append, cut
\* after the position held just before the append, followed by the new
\* artifact, and the position becomes the new last index.
C2_AppendTruncatesAtCurrentPosition ==
    [][(lastOp'.result = "applied" /\ lastOp'.op \in EditKinds \cup {"applyCrop"})
          => /\ history' = Append(SubSeq(history, 1, historyIndex + 1), nextFile)
             /\ historyIndex' = Len(history') - 1]_vars

\* C3: at every moment at most one external generation call is in flight.
C3_AtMostOneCallInFlight == Cardinality(InFlight) <= 1

\* C4: undo decrements the position by exactly one when it is above 0 and
\* changes nothing when it is 0 or below; the history is unchanged either way.
C4_UndoStep ==
    [][lastOp'.op = "undo"
          => /\ history' = history
             /\ historyIndex' = IF historyIndex > 0 THEN historyIndex - 1
                                ELSE historyIndex]_vars

\* An undo has moved the position and left a redo tail behind it.
C4_Witness ==
    /\ lastOp = Op("undo", "moved")
    /\ historyIndex < Len(history) - 1

\* C5: redo increments the position by exactly one when it is below the last
\* index and changes nothing at the last index; the history is unchanged
\* either way.
C5_RedoStep ==
    [][lastOp'.op = "redo"
          => /\ history' = history
             /\ historyIndex' = IF historyIndex < Len(history) - 1
                                THEN historyIndex + 1 ELSE historyIndex]_vars

\* A redo has moved the position forward to the last index.
C5_Witness ==
    /\ lastOp = Op("redo", "moved")
    /\ historyIndex = Len(history) - 1
    /\ historyIndex > 0

\* C6: reset on a non-empty history sets the position to 0 and leaves the
\* history as it was (so every artifact is still there for redo to step to);
\* on an empty history it changes neither.
C6_ResetStep ==
    [][lastOp'.op = "reset"
          => /\ history' = history
             /\ historyIndex' = IF Len(history) > 0 THEN 0 ELSE historyIndex
             /\ (Len(history) > 1 => historyIndex' < Len(history') - 1)]_vars

\* A reset has gone back to the start of a history of several artifacts.
C6_Witness ==
    /\ lastOp.op = "reset"
    /\ Len(history) >= 2
    /\ historyIndex = 0

\* C7: every call in flight was invoked with a key that is not empty and has
\* no white space at either end.
C7_CallsCarryCredential ==
    \A c \in CallIds :
        calls[c].status = "inflight"
            => /\ calls[c].key # <<>>
               /\ Head(calls[c].key) # Space
               /\ calls[c].key[Len(calls[c].key)] # Space

\* A call held by the modal has been started by the timer with the key typed.
C7_Witness ==
    /\ lastOp = Op("timer", "started")
    /\ \E c \in CallIds : calls[c].status = "inflight" /\ calls[c].key = <<"k">>

\* C8: when a generation call fails, or the data URL it returns (or the face
\* it is given) is malformed, the history and the position are left as they
\* were, an error message is set, and the loading flag is cleared.
C8_FailureLeavesHistory ==
    [][lastOp'.result = "failed"
          => /\ history' = history
             /\ historyIndex' = historyIndex
             /\ error' # Null
             /\ error'[1] \in {"Failed to create memory.",
                               "Failed to generate the image.",
                               "Failed to apply the filter.",
                               "Failed to apply the adjustment."}
             /\ isLoading' = FALSE]_vars

\* An edit, filter or adjustment of a history of two artifacts has failed.
C8_Witness ==
    /\ lastOp.result = "failed"
    /\ lastOp.op \in EditKinds
    /\ Len(history) >= 2
    /\ error # Null

\* C9: no request invokes the external service more than once.
C9_NoRetries == \A c \in CallIds : calls[c].invoked <= 1

\* The only request made so far was held by the modal (the key in use is the
\* one typed there), was started by the timer and has failed, having invoked
\* the service once.
C9_Witness ==
    /\ lastOp.result = "failed"
    /\ lastOp.op \in CallKinds
    /\ apiKey = Some(<<"k">>)
    /\ nextCall = 2
    /\ calls[1].status = "done" /\ calls[1].invoked = 1

\* C10: a call in flight is ended only by the service's answer, and that
\* step appends to (or replaces) the history or sets an error; if the service
\* answers every call, every call in flight is eventually done and the
\* loading flag eventually returns to false.
C10_CallsRunToCompletion ==
    /\ [][\A c \in CallIds :
             (calls[c].status = "inflight" /\ calls'[c].status # "inflight")
                => /\ calls'[c].status = "done"
                   /\ lastOp'.op \in CallKinds
                   /\ \/ lastOp'.result = "applied" /\ nextFile \in
                            {history'[i] : i \in 1..Len(history')}
                      \/ lastOp'.result = "failed" /\ error' # Null]_vars
    /\ \A c \in CallIds :
          (calls[c].status = "inflight") ~> (calls[c].status = "done")
    /\ isLoading ~> ~isLoading

\* C11: applying a crop when no region has been selected (no completed crop,
\* or no displayed image) sets the error 'Please select an area to crop.' and
\* leaves the history and the position as they were.
C11_NoRegionRejected ==
    [][(lastOp'.op = "applyCrop" /\ (completedCrop = Null \/ currentImage = Null))
          => /\ error' = <<"Please select an area to crop.">>
             /\ history' = history
             /\ historyIndex' = historyIndex]_vars

\* Apply Crop has been refused for want of a selection, on an image that has
\* been edited before.
C11_Witness ==
    /\ lastOp = Op("applyCrop", "rejected")
    /\ completedCrop = Null
    /\ error = <<"Please select an area to crop.">>
    /\ Len(history) >= 2

\* C12: applying a crop whose completed selection has width 0 or height 0
\* does not apply it: no File is made, nothing is appended to the history and
\* the position stays.
C12_ZeroSizeCropNotApplied ==
    [][(/\ lastOp'.op = "applyCrop"
        /\ completedCrop # Null
        /\ (completedCrop[1].width = 0 \/ completedCrop[1].height = 0))
          => /\ lastOp'.result # "applied"
             /\ history' = history
             /\ historyIndex' = historyIndex
             /\ nextFile' = nextFile]_vars

\* Apply Crop has been pressed, and has ended without effect, on a selection
\* 2 wide and 0 high (one the button is enabled for).
C12_Witness ==
    /\ lastOp = Op("applyCrop", "thrown")
    /\ completedCrop # Null
    /\ completedCrop[1].width > 0
    /\ completedCrop[1].height = 0

\* C13: at any time at most one unrevoked object URL exists for the current
\* image and at most one for the original image, each refers to the artifact
\* that is current (original) now, so the URL of a replaced or removed
\* artifact has been revoked, and no URL created for a download outlives the
\* step that created it.
C13_ObjectUrlsReleased ==
    /\ Cardinality({u \in objectUrls : u.purpose = "current"}) <= 1
    /\ Cardinality({u \in objectUrls : u.purpose = "original"}) <= 1
    /\ \A u \in objectUrls :
          /\ u.purpose # "download"
          /\ u.purpose = "current" => currentImage = Some(u.file)
          /\ u.purpose = "original" => originalImage = Some(u.file)

\* The image has been downloaded after the current artifact was replaced (by
\* an append, then by going back to the first artifact); one URL is held for
\* the current image and one for the original.
C13_Witness ==
    /\ lastOp.op = "download"
    /\ Len(history) >= 2
    /\ historyIndex = 0
    /\ objectUrls = {ObjectUrl("current", history[1]), ObjectUrl("original", history[1])}

\* C14: the stored list of reference faces never holds more than 5 entries
\* (nor does the list shown), whatever is added and deleted and however file
\* reads overlap.
C14_AtMostFiveFaces == Len(storedFaces) <= 5 /\ Len(faces) <= 5

\* Five faces are stored, and a read that was started when four were shown
\* has been overtaken by another and is still to load.
C14_Witness ==
    /\ Len(storedFaces) = 5
    /\ Len(faces) = 5
    /\ \E r \in reads : Len(r.faces) = 4

\* C15: whenever the in-memory API key is not null it equals the value kept
\* under 'user-api-key' in session storage, and submitting a key that is
\* empty or all white space changes neither of them and leaves the modal open.
C15_KeyHeldInSessionStorage ==
    /\ [](apiKey # Null => apiKey = sessionKey)
    /\ [][(lastOp'.op = "apiKeySubmit" /\ trim(modalKey) = <<>>)
             => /\ apiKey' = apiKey
                /\ sessionKey' = sessionKey
                /\ isApiKeyModalOpen']_vars

\* A key of white space only has been submitted: the modal is still open and
\* neither memory nor session storage holds a key.
C15_Witness ==
    /\ lastOp.op = "apiKeySubmit"
    /\ modalKey = <<Space>>
    /\ isApiKeyModalOpen
    /\ apiKey = Null
    /\ sessionKey = Null

\* C16: in every reachable state a non-null edit hotspot implies that the
\* history is not empty and a current artifact exists.
C16_HotspotOnlyOnImage ==
    editHotspot # Null => (history # <<>> /\ currentImage # Null)

\* A hotspot is set, and a prompt typed, on the first artifact, to which the
\* user has gone back from a later one.
C16_Witness ==
    /\ editHotspot # Null
    /\ prompt # <<>>
    /\ Len(history) >= 2
    /\ historyIndex = 0

\* |a - b|
distance(a, b) == IF a >= b THEN a - b ELSE b - a

\* C17: the hotspot of a click at displayed offset (ox, oy) on an image of
\* displayed size (cw, ch) and native size (nw, nh) is, on each axis by
\* itself, ox*nw/cw (oy*nh/ch) rounded to a nearest integer, that is, at most
\* half a native pixel away from it; scaled back by cw/nw (ch/nh) it is
\* within one native pixel (cw/nw, ch/nh displayed pixels) of the offset
\* clicked.
C17_ScalingLinearUpToRounding ==
    (arg # Null /\ ret # Null) =>
        LET a == arg[1]
            h == ret[1]
        IN /\ 2 * distance(h.x * a.clientWidth, a.offsetX * a.naturalWidth)
                   <= a.clientWidth
           /\ 2 * distance(h.y * a.clientHeight, a.offsetY * a.naturalHeight)
                   <= a.clientHeight
           /\ distance(h.x * a.clientWidth, a.offsetX * a.naturalWidth)
                   <= a.clientWidth
           /\ distance(h.y * a.clientHeight, a.offsetY * a.naturalHeight)
                   <= a.clientHeight

\* A click at (2, 1) on an image shown 3 by 4 and 4 by 3 in native pixels:
\* the hotspot is (3, 1), from 8/3 rounded up and 3/4 rounded up; the two
\* axes are scaled by different factors.
C17_Witness ==
    /\ ret = Some([x |-> 3, y |-> 1])
    /\ arg # Null
    /\ arg[1].offsetX = 2 /\ arg[1].clientWidth = 3 /\ arg[1].naturalWidth = 4
    /\ arg[1].offsetY = 1 /\ arg[1].clientHeight = 4 /\ arg[1].naturalHeight = 3

\* The string has no comma.
hasNoComma(str) == \A i \in 1..Len(str) : str[i] # ","

\* What stands before the first comma of a string that has one.
headerOf(str) ==
    SubSeq(str, 1, (CHOOSE i \in 1..Len(str) :
                       str[i] = "," /\ \A j \in 1..(i - 1) : str[j] # ",") - 1)

\* The header names no MIME type: it has no colon, or it ends with its
\* first colon, or a semicolon follows that colon directly.
namesNoMimeType(h) ==
    \/ \A i \in 1..Len(h) : h[i] # ":"
    \/ \E i \in 1..Len(h) :
          /\ h[i] = ":"
          /\ \A j \in 1..(i - 1) : h[j] # ":"
          /\ (i = Len(h) \/ h[i + 1] = ";")

\* C18: converting a data URL without a comma raises 'Invalid data URL', and
\* converting one whose header names no MIME type raises 'Could not parse
\* MIME type from data URL'; whenever the conversion raises, no File has been
\* made.
C18_MalformedDataUrlFailsFast ==
    (arg # Null /\ ret # Null) =>
        /\ hasNoComma(arg[1])
              => (~ret[1].ok /\ ret[1].message = "Invalid data URL")
        /\ (~hasNoComma(arg[1]) /\ namesNoMimeType(headerOf(arg[1])))
              => (~ret[1].ok /\ ret[1].message = "Could not parse MIME type from data URL")
        /\ ~ret[1].ok => (ret[1].type = <<>> /\ ret[1].bytes = <<>>)

\* 'data:;,QUJD', whose header has a semicolon right after the colon, has
\* been refused for its MIME type.
C18_Witness ==
    /\ arg = Some(<<"data", ":", ";", ",", "QUJD">>)
    /\ ret # Null
    /\ ~ret[1].ok
    /\ ret[1].message = "Could not parse MIME type from data URL"

\* C19: a Generate request with no current image, with a prompt that is
\* empty or all white space, or with no hotspot sets the message of the first
\* of these that applies, makes no request and no service call, opens no
\* API-key modal, holds no action, and leaves history, position and the
\* loading flag as they were.
C19_GenerateValidates ==
    [][(/\ lastOp'.op = "generate"
        /\ (currentImage = Null \/ trim(prompt) = <<>> \/ editHotspot = Null))
          => /\ error' = <<IF currentImage = Null
                             THEN "No image loaded to edit."
                           ELSE IF trim(prompt) = <<>>
                             THEN "Please enter a description for your edit."
                           ELSE "Please click on the image to select an area to edit.">>
             /\ calls' = calls
             /\ nextCall' = nextCall
             /\ isApiKeyModalOpen' = isApiKeyModalOpen
             /\ ~isApiKeyModalOpen'
             /\ pendingAction' = pendingAction
             /\ history' = history
             /\ historyIndex' = historyIndex
             /\ isLoading' = isLoading]_vars

\* Generate has been refused for want of a hotspot, with a prompt typed (the
\* hotspot it was typed for has been cleared since).
C19_Witness ==
    /\ lastOp = Op("generate", "rejected")
    /\ error = <<"Please click on the image to select an area to edit.">>
    /\ trim(prompt) # <<>>
    /\ editHotspot = Null
    /\ calls = [c \in CallIds |-> NoCall]

\* The handlers that request a generation call.
RequestOps == {"createMemory", "generate", "applyFilter", "applyAdjustment"}

\* C20: a request made while no credential is stored (and not refused for
\* its inputs) invokes no service call in that step, opens the API-key modal
\* and is held; once a key has been submitted for a held action, the action
\* (it is still held and the modal has closed) is eventually run, by the
\* timer, with the key submitted, the held action is cleared in that step,
\* and the action is never held or run again.
C20_HeldActionRunsOnce ==
    /\ [][(/\ lastOp'.op \in RequestOps
           /\ lastOp'.result # "rejected"
           /\ (apiKey = Null \/ apiKey = Some(<<>>)))
             => /\ \A c \in CallIds : calls'[c].invoked = calls[c].invoked
                /\ InFlight' = InFlight
                /\ isApiKeyModalOpen'
                /\ pendingAction' = Some(nextCall)
                /\ calls'[nextCall].status = "held"]_vars
    /\ [][\A c \in CallIds :
             (calls[c].status = "timer" /\ calls'[c].status # "timer")
                => /\ lastOp'.op = "timer"
                   /\ pendingAction' = Null
                   /\ calls'[c].status \in {"inflight", "done"}
                   /\ calls'[c].status = "inflight"
                         => (calls'[c].invoked = 1 /\ apiKey = Some(calls'[c].key))]_vars
    /\ [][\A c \in CallIds :
             calls[c].status \in {"inflight", "done"}
                => calls'[c].status \in {"inflight", "done"}]_vars
    /\ (pendingAction # Null /\ ~isApiKeyModalOpen) ~> (pendingAction = Null)

\* The action held when Generate was pressed without a key has been started
\* by the timer with the key typed into the modal, and is held no more.
C20_Witness ==
    /\ lastOp = Op("timer", "started")
    /\ calls[1].kind = "edit"
    /\ calls[1].status = "inflight"
    /\ calls[1].key = <<"k">>
    /\ calls[1].invoked = 1
    /\ pendingAction = Null
    /\ sessionKey = Some(<<"k">>)

\* A generation has been answered and applied after the user pressed Upload
\* New while it was in flight (nothing else empties the prompt it was
\* requested with).
C10_Witness ==
    /\ lastOp = Op("edit", "applied")
    /\ prompt = <<>>
    /\ history # <<>>
    /\ ~isLoading

\* C21: closing the API-key modal without submitting a key discards the held
\* action: nothing is held afterwards, the step invokes no service call and
\* leaves the history, the position and the credential (in state and in
\* sessionStorage) as they were, and a discarded action is never invoked.
C21_ClosedModalDiscardsAction ==
    /\ [][lastOp'.op = "closeModal"
             => /\ pendingAction' = Null
                /\ ~isApiKeyModalOpen'
                /\ history' = history /\ historyIndex' = historyIndex
                /\ apiKey' = apiKey /\ sessionKey' = sessionKey
                /\ InFlight' = InFlight
                /\ \A c \in CallIds :
                      /\ calls'[c].invoked = calls[c].invoked
                      /\ pendingAction = Some(c)
                            => (calls'[c].status = "dropped" /\ calls'[c].invoked = 0)]_vars
    /\ [][\A c \in CallIds :
             calls[c].status = "dropped" => calls'[c] = calls[c]]_vars

\* A create-memory request was held, the modal was closed on it, and the user
\* has gone on to upload a file: the request is still discarded and was
\* never sent.
C21_Witness ==
    /\ calls[1].status = "dropped"
    /\ calls[1].invoked = 0
    /\ lastOp = Op("upload", "applied")
    /\ apiKey = Null

\* C22: in every reachable state the loading flag is true exactly when some
\* generation call has been started and has not yet completed or failed.
C22_LoadingWhileInFlight == isLoading <=> InFlight # {}

\* C23: Upload New leaves the history empty with position -1 and the prompt,
\* the error and both hotspots cleared, and an empty history gets an artifact
\* only from an upload or from a create-memory call that succeeds; the
\* completion of an edit, a filter or an adjustment puts nothing into it.
C23_UploadNewEmptiesHistory ==
    /\ [][lastOp'.op = "uploadNew"
             => /\ history' = <<>> /\ historyIndex' = -1
                /\ prompt' = <<>> /\ error' = Null
                /\ editHotspot' = Null /\ displayHotspot' = Null]_vars
    /\ [][(history = <<>> /\ history' # <<>>)
             => lastOp'.op \in {"upload", "memory"}]_vars

\* The artifact an action that is about to complete was produced from: the
\* one that was current when a generation call was requested, or the one
\* that is current when Apply Crop is pressed.
producedFrom(c) == calls[c].hist[calls[c].idx + 1]

\* C24: when an edit, a filter, an adjustment or a crop completes
\* successfully, the new artifact stands in the history directly after the
\* artifact it was produced from (the one that was current when the action
\* was requested) and is the current artifact.
C24_ArtifactFollowsItsSource ==
    /\ [][\A c \in CallIds :
             (/\ calls[c].status = "inflight"
              /\ calls[c].kind \in EditKinds
              /\ calls'[c].status = "done"
              /\ lastOp' = Op(calls[c].kind, "applied"))
                => /\ historyIndex' >= 1
                   /\ historyIndex' < Len(history')
                   /\ history'[historyIndex' + 1] = nextFile
                   /\ history'[historyIndex'] = producedFrom(c)
                   /\ currentImage' = Some(nextFile)]_vars
    /\ [][lastOp' = Op("applyCrop", "applied")
             => /\ historyIndex' >= 1
                /\ historyIndex' < Len(history')
                /\ history'[historyIndex' + 1] = nextFile
                /\ Some(history'[historyIndex']) = currentImage
                /\ currentImage' = Some(nextFile)]_vars

\* A generation call made after an undo has completed: its artifact (the
\* third File) stands directly after the first, from which it was produced,
\* in place of the second.
C24_Witness ==
    /\ lastOp.op \in EditKinds
    /\ lastOp.result = "applied"
    /\ history = <<1, 3>>
    /\ historyIndex = 1

\* C25: an upload, and a create-memory call that succeeds, each leave the
\* history holding the new artifact alone, with position 0, no hotspot and
\* the retouch tab selected, whatever the history held before.
C25_NewImageReplacesHistory ==
    [][(lastOp' = Op("upload", "applied") \/ lastOp' = Op("memory", "applied"))
          => /\ history' = <<nextFile>>
             /\ historyIndex' = 0
             /\ currentImage' = Some(nextFile)
             /\ editHotspot' = Null /\ displayHotspot' = Null
             /\ activeTab' = "retouch"]_vars

\* A create-memory call that was held for the key has succeeded after the
\* user uploaded an image meanwhile: its artifact is alone in the history.
C25_Witness ==
    /\ lastOp = Op("memory", "applied")
    /\ history = <<2>>
    /\ historyIndex = 0
    /\ activeTab = "retouch"

\* C26: whenever the current artifact changes, the edit hotspot and the
\* display hotspot are cleared.
C26_HotspotClearedWithImage ==
    [][currentImage' # currentImage
          => (editHotspot' = Null /\ displayHotspot' = Null)]_vars

\* C27: in every reachable state the edit hotspot is null exactly when the
\* display hotspot is null.
C27_HotspotsSetTogether == (editHotspot = Null) <=> (displayHotspot = Null)

\* An undo has moved back from the second artifact after a hotspot had been
\* set (a prompt can be typed only while one is): none is set now.
C27_Witness ==
    /\ lastOp = Op("undo", "moved")
    /\ editHotspot = Null /\ displayHotspot = Null
    /\ Len(history) = 2 /\ historyIndex = 0
    /\ prompt # <<>>

\* C28: on the start screen the selected face, the one a create-memory request
\* would be sent with, is null or one of the faces of the library, also after
\* faces were deleted and the tabs were switched.  It is stated for the states
\* where the library is shown and shows what is stored, so that a write the
\* storage refused is not what breaks it.
C28_SelectedFaceInLibrary ==
    (startTab = "generate" /\ faces = storedFaces) =>
        \/ selectedFace = Null
        \/ \E i \in DOMAIN storedFaces : selectedFace = Some(storedFaces[i])

\* C29: a face that has been loaded into the library stays in it when another
\* file finishes loading, also when that file was picked before the first had
\* loaded; and whenever an add or a delete of the mounted library changes the
\* stored list, the stored list is then the list shown.
C29_LoadedFacesAreKept ==
    /\ [][\A r \in reads :
             ((\A q \in reads : q.mounted) /\ reads' = reads \ {r})
                 => \A i \in DOMAIN faces :
                       \E j \in DOMAIN faces' : faces'[j] = faces[i]]_vars
    /\ [][(\A q \in reads : q.mounted)
             => (storedFaces' = storedFaces \/ storedFaces' = faces')]_vars

\* C30: whenever another artifact becomes the current one (by an append, an
\* upload, a created memory, undo, redo or reset) the completed crop selection
\* is cleared, so a crop is never applied with a rectangle drawn on another
\* artifact.
C30_CropClearedWithImage ==
    [][(currentImage' # currentImage /\ currentImage' # Null)
          => completedCrop' = Null]_vars

\* C31: from an upload or a created memory until the next upload, created
\* memory or Upload New, the first artifact of the history stays the same,
\* whatever edits, filters, adjustments, crops, undos, redos and resets occur.
C31_OriginalPreserved ==
    [][(history # <<>> /\ ~(lastOp' \in {Op("upload", "applied"),
                                        Op("memory", "applied"),
                                        Op("uploadNew", "none")}))
          => (history' # <<>> /\ history'[1] = history[1])]_vars

====
